---------------------------- MODULE Spec2Model ----------------------------
(***************************************************************************)
(* ParkingScenario (srunner/scenarios/parking.py): placement of the        *)
(* supporting actors relative to the ego vehicle, the behaviour tree built *)
(* by _create_behavior, the collision criterion, and the lifecycle that    *)
(* ticks them and removes the actors on deletion.                          *)
(*                                                                         *)
(* Four specifications share the module's variables:                       *)
(*   Spec      the scenario lifecycle with the tree the code builds;       *)
(*   SpecGeom  spawn_actor's transform computation on drawn inputs;        *)
(*   SpecCtl   the composite controllers on trees with free leaves;        *)
(*   SpecPlace the lifecycle on actors_info dictionaries whose placement   *)
(*             specs may lack a field.                                     *)
(***************************************************************************)
EXTENDS Integers, Sequences, FiniteSets, TLC

VARIABLES
    phase,                \* lifecycle position
    reference_transform,  \* self._reference_transform
    pending,              \* actors_info entries still to iterate, in order
    other_actors,         \* self.other_actors
    spawned,              \* actors the simulator created for this scenario
    physics,              \* actors with simulate-physics enabled
    placed,               \* transform each spawned actor was requested at
    destroyed,            \* actors remove_all_actors called destroy on
    destroy_failed,       \* actors whose destroy call failed during removal
    info,                 \* the actors_info dictionary _initialize_actors iterates
    children,             \* the built tree: node -> sequence of child nodes
    status,               \* node -> INVALID | RUNNING | SUCCESS | FAILURE
    cur,                  \* sequence controller -> index of its current child
    ticked,               \* nodes ticked in the last tick
    clock,                \* simulation time
    gate_time,            \* time at which the trigger gate succeeded, or -1
    walker,               \* the scripted actor: commanded speed, distance, node memory
    tick_in,              \* the inputs of the last tick
    criteria,             \* built criteria: name -> record of the criterion
    report,               \* the final report, or the empty record while running
    geo                   \* SpecGeom: spec drawn, transform computed

vars == <<phase, reference_transform, pending, other_actors, spawned, physics,
          placed, destroyed, children, status, cur, ticked, clock, gate_time,
          walker, tick_in, criteria, report, geo,
          destroy_failed, info>>

-----------------------------------------------------------------------------
(* Program constants *)

timeout == 200
other_actor_target_velocity == 4
other_actor_max_brake == 1
perp_angle == 90
ego_stand_duration == 60
dist_actor_travel == 10
time_to_reach == 5

(* Bounds of the model *)

\* simulation time that passes per tick of the driver
TickPeriod == 10
\* contact events the collision criterion counts before the model stops adding
MaxContacts == 1
\* reference locations are drawn from -MaxCoord..MaxCoord on x and y
MaxCoord == 1

-----------------------------------------------------------------------------
(* Geometry: carla.Transform, carla.Rotation.get_forward_vector, spawn_actor *)

Norm360(a) == a % 360

\* cosine and sine at multiples of 90 degrees
Cos90(a) == CASE Norm360(a) = 0 -> 1
              [] Norm360(a) = 180 -> -1
              [] OTHER -> 0

Sin90(a) == CASE Norm360(a) = 90 -> 1
              [] Norm360(a) = 270 -> -1
              [] OTHER -> 0

\* carla.Rotation.get_forward_vector of a rotation with this pitch and yaw
get_forward_vector(pitch, yaw) ==
    [x |-> Cos90(pitch) * Cos90(yaw),
     y |-> Cos90(pitch) * Sin90(yaw),
     z |-> Sin90(pitch)]

actors_info ==
    [n \in {"walker.*", "static.prop.container", "static.prop.shoppingcart"} |->
        CASE n = "walker.*" -> [yaw |-> 270, k |-> 10, j |-> 5, z |-> 0]
          [] n = "static.prop.container" -> [yaw |-> 90, k |-> 25, j |-> 0, z |-> 0]
          [] OTHER -> [yaw |-> 0, k |-> 2, j |-> 15, z |-> 2]]

ActorNames == DOMAIN actors_info

\* spawn_actor with the final yaw left at the perpendicular turn
SpawnTransformKeepsTurn(actor_transform, start_transform) ==
    LET f1 == get_forward_vector(start_transform.pitch, start_transform.yaw)
        f2 == get_forward_vector(start_transform.pitch, start_transform.yaw + perp_angle)
    IN  [x |-> start_transform.x + actor_transform.k * f1.x + actor_transform.j * f2.x,
         y |-> start_transform.y + actor_transform.k * f1.y + actor_transform.j * f2.y,
         z |-> start_transform.z + actor_transform.k * f1.z + actor_transform.j * f2.z
               + actor_transform.z,
         yaw |-> start_transform.yaw + perp_angle,
         pitch |-> start_transform.pitch,
         roll |-> start_transform.roll]

\* spawn_actor with the perpendicular offset taken along the unturned forward vector
SpawnTransformNoTurn(actor_transform, start_transform) ==
    LET f1 == get_forward_vector(start_transform.pitch, start_transform.yaw)
    IN  [x |-> start_transform.x + (actor_transform.k + actor_transform.j) * f1.x,
         y |-> start_transform.y + (actor_transform.k + actor_transform.j) * f1.y,
         z |-> start_transform.z + (actor_transform.k + actor_transform.j) * f1.z
               + actor_transform.z,
         yaw |-> start_transform.yaw + actor_transform.yaw,
         pitch |-> start_transform.pitch,
         roll |-> start_transform.roll]

\* the transform spawn_actor computes, statement by statement
SpawnTransform(actor_transform, start_transform) ==
    LET t0 == start_transform
        f1 == get_forward_vector(t0.pitch, t0.yaw)
        t1 == [t0 EXCEPT !.x = @ + actor_transform.k * f1.x,
                         !.y = @ + actor_transform.k * f1.y,
                         !.z = @ + actor_transform.k * f1.z]
        t2 == [t1 EXCEPT !.yaw = @ + perp_angle]
        f2 == get_forward_vector(t2.pitch, t2.yaw)
        t3 == [t2 EXCEPT !.x = @ + actor_transform.j * f2.x,
                         !.y = @ + actor_transform.j * f2.y,
                         !.z = @ + actor_transform.j * f2.z]
        t4 == [t3 EXCEPT !.yaw = start_transform.yaw + actor_transform.yaw]
    IN  [t4 EXCEPT !.z = @ + actor_transform.z]

-----------------------------------------------------------------------------
(* The behaviour tree: nodes, the composites, one tick *)

Leaves == {"start_condition", "actor_velocity", "actor_drive",
           "actor_stop_crossed_lane", "ego_stand"}
Composites == {"scenario_sequence", "keep_velocity"}
Nodes == Leaves \cup Composites
Terminal == {"SUCCESS", "FAILURE"}
Statuses == {"INVALID", "RUNNING"} \cup Terminal

\* the root built as a parallel composite instead of a sequence
scenario_sequence_as_parallel == "SUCCESS_ON_ONE"

\* py_trees.composites.Sequence()
scenario_sequence_kind == "SEQUENCE"

\* the parallel built with the policy that waits for every child
keep_velocity_policy_all == "SUCCESS_ON_ALL"

\* py_trees.composites.Parallel(policy=ParallelPolicy.SUCCESS_ON_ONE)
keep_velocity_policy == "SUCCESS_ON_ONE"

Kind(n) == CASE n = "scenario_sequence" -> scenario_sequence_kind
             [] n = "keep_velocity" -> keep_velocity_policy
             [] OTHER -> "LEAF"

NoChildren == [n \in Nodes |-> <<>>]

\* a tree whose sequence applies the velocity before it waits for the trigger
create_behavior_velocity_first ==
    [NoChildren EXCEPT !["scenario_sequence"] =
        <<"actor_velocity", "start_condition", "actor_drive",
          "actor_stop_crossed_lane", "ego_stand">>]

\* the tree _create_behavior returns: five add_child calls on scenario_sequence,
\* none on keep_velocity
create_behavior ==
    [NoChildren EXCEPT !["scenario_sequence"] =
        <<"start_condition", "actor_velocity", "actor_drive",
          "actor_stop_crossed_lane", "ego_stand">>]

Range(s) == {s[i] : i \in DOMAIN s}

\* A tree state is [status, cur, ticked].  lr gives, for each leaf, the status
\* its update would return if it were ticked now.
RECURSIVE TickNode(_, _, _, _)
RECURSIVE TickChildren(_, _, _, _, _)

\* a leaf: update() runs and its result is the node's status
TickLeaf(n, S, lr) ==
    [S EXCEPT !.status[n] = lr[n], !.ticked = @ \cup {n}]

\* SEQUENCE: tick only the current child; FAILURE of the child fails the
\* sequence at once; SUCCESS of the child advances to the next child, which is
\* ticked on the next tick; SUCCESS of the last child is SUCCESS
TickSequence(n, S, lr, ch) ==
    LET kids == ch[n]
        i == S.cur[n]
    IN  IF kids = <<>>
        THEN [S EXCEPT !.status[n] = "SUCCESS", !.ticked = @ \cup {n}]
        ELSE LET S1 == TickNode(kids[i], S, lr, ch)
                 r == S1.status[kids[i]]
             IN  [S1 EXCEPT
                    !.status[n] = CASE r = "FAILURE" -> "FAILURE"
                                    [] r = "SUCCESS" /\ i = Len(kids) -> "SUCCESS"
                                    [] OTHER -> "RUNNING",
                    !.cur[n] = IF r = "SUCCESS" /\ i < Len(kids) THEN i + 1 ELSE i,
                    !.ticked = @ \cup {n}]

\* every child that is not yet terminal is ticked, in order
TickChildren(kids, i, S, lr, ch) ==
    IF i > Len(kids) THEN S
    ELSE TickChildren(kids, i + 1,
                      IF S.status[kids[i]] \in Terminal THEN S
                      ELSE TickNode(kids[i], S, lr, ch),
                      lr, ch)

\* a parallel that, on becoming terminal, stops its children that are still
\* running and resets them to INVALID
TickParallelStopsRunning(n, S, lr, ch) ==
    LET kids == ch[n]
        S1 == TickChildren(kids, 1, S, lr, ch)
        st == {S1.status[c] : c \in Range(kids)}
        won == IF Kind(n) = "SUCCESS_ON_ONE"
               THEN "SUCCESS" \in st
               ELSE kids # <<>> /\ st = {"SUCCESS"}
        r == CASE won -> "SUCCESS"
               [] "FAILURE" \in st -> "FAILURE"
               [] OTHER -> "RUNNING"
    IN  [S1 EXCEPT
           !.status = [m \in DOMAIN @ |->
                         IF m = n THEN r
                         ELSE IF r \in Terminal /\ m \in Range(kids) /\ @[m] = "RUNNING"
                              THEN "INVALID"
                         ELSE @[m]],
           !.ticked = @ \cup {n}]

\* PARALLEL: all non-terminal children tick; under SUCCESS_ON_ONE one child's
\* SUCCESS is the controller's, whatever the others' status; under
\* SUCCESS_ON_ALL every child must have succeeded; otherwise a failed child
\* fails the controller
TickParallel(n, S, lr, ch) ==
    LET kids == ch[n]
        S1 == TickChildren(kids, 1, S, lr, ch)
        st == {S1.status[c] : c \in Range(kids)}
        won == IF Kind(n) = "SUCCESS_ON_ONE"
               THEN "SUCCESS" \in st
               ELSE kids # <<>> /\ st = {"SUCCESS"}
    IN  [S1 EXCEPT
           !.status[n] = CASE won -> "SUCCESS"
                           [] "FAILURE" \in st -> "FAILURE"
                           [] OTHER -> "RUNNING",
           !.ticked = @ \cup {n}]

\* one tick of node n; a terminal node is not ticked again
TickNode(n, S, lr, ch) ==
    IF S.status[n] \in Terminal THEN S
    ELSE CASE Kind(n) = "LEAF" -> TickLeaf(n, S, lr)
           [] Kind(n) = "SEQUENCE" -> TickSequence(n, S, lr, ch)
           [] OTHER -> TickParallel(n, S, lr, ch)

\* one tick of the whole tree from its root
TickTree(st, cu, lr, ch) ==
    TickNode("scenario_sequence", [status |-> st, cur |-> cu, ticked |-> {}], lr, ch)

FreshStatus == [n \in Nodes |-> "INVALID"]
FreshCur == [n \in Composites |-> 1]

-----------------------------------------------------------------------------
(* Leaf behaviours, the trigger, the criterion, one driver tick *)

Max(a, b) == IF a >= b THEN a ELSE b

\* a trigger whose time to arrival starts at zero and is only raised by a
\* positive closing velocity
InTimeToArrivalFromZero(dist, closing) ==
    closing = 0 \/ dist <= time_to_reach * closing

\* InTimeToArrivalToVehicle: the estimated time to arrival, distance over
\* closing velocity, is at most the threshold; no arrival without closing velocity
InTimeToArrival(dist, closing) ==
    closing > 0 /\ dist <= time_to_reach * closing

TriggerDistances == {20, 40}
ClosingVelocities == {0, 4, 8}

\* leaves of which the velocity node reports SUCCESS once the actor has the
\* target velocity
LeafResultsVelocityCompletes(w, in, clk) ==
    [n \in Leaves |->
        CASE n = "start_condition" ->
                IF InTimeToArrival(in.dist, in.closing) THEN "SUCCESS" ELSE "RUNNING"
          [] n = "actor_velocity" ->
                IF in.reject THEN "FAILURE"
                ELSE IF w.speed = other_actor_target_velocity THEN "SUCCESS"
                ELSE "RUNNING"
          [] n = "actor_drive" ->
                LET start == IF w.drive_start = -1 THEN w.dist ELSE w.drive_start
                IN  IF w.dist - start >= dist_actor_travel THEN "SUCCESS" ELSE "RUNNING"
          [] n = "actor_stop_crossed_lane" ->
                IF in.reject THEN "FAILURE"
                ELSE IF w.speed = 0 THEN "SUCCESS" ELSE "RUNNING"
          [] OTHER ->
                LET start == IF w.idle_start = -1 THEN clk ELSE w.idle_start
                IN  IF clk - start >= ego_stand_duration THEN "SUCCESS" ELSE "RUNNING"]

\* what each leaf's update returns when ticked with the world w at time clk
LeafResults(w, in, clk) ==
    [n \in Leaves |->
        CASE n = "start_condition" ->
                IF InTimeToArrival(in.dist, in.closing) THEN "SUCCESS" ELSE "RUNNING"
          [] n = "actor_velocity" ->
                IF in.reject THEN "FAILURE" ELSE "RUNNING"
          [] n = "actor_drive" ->
                LET start == IF w.drive_start = -1 THEN w.dist ELSE w.drive_start
                IN  IF w.dist - start >= dist_actor_travel THEN "SUCCESS" ELSE "RUNNING"
          [] n = "actor_stop_crossed_lane" ->
                IF in.reject THEN "FAILURE"
                ELSE IF w.speed = 0 THEN "SUCCESS" ELSE "RUNNING"
          [] OTHER ->
                LET start == IF w.idle_start = -1 THEN clk ELSE w.idle_start
                IN  IF clk - start >= ego_stand_duration THEN "SUCCESS" ELSE "RUNNING"]

\* the scripted actor after the commands of the nodes ticked in tk
Commanded(w, tk, in, clk) ==
    [w EXCEPT
       !.speed = IF in.reject THEN @
                 ELSE IF "actor_velocity" \in tk THEN other_actor_target_velocity
                 ELSE IF "actor_stop_crossed_lane" \in tk
                      THEN Max(0, @ - other_actor_max_brake * TickPeriod)
                 ELSE @,
       !.drive_start = IF "actor_drive" \in tk /\ @ = -1 THEN w.dist ELSE @,
       !.idle_start = IF "ego_stand" \in tk /\ @ = -1 THEN clk ELSE @]

\* the simulator's step: the actor moves at its commanded speed
Moved(w) == [w EXCEPT !.dist = @ + w.speed * TickPeriod]

\* _create_test_criteria: one CollisionTest on the ego vehicle
create_test_criteria == {"CollisionTest"}

FreshCriterion == [actor |-> "ego", collisions |-> 0, samples |-> 0, seen_speed |-> 0]

\* one sample of a criterion: it observes the world it is given
Sample(c, w, contact) ==
    [c EXCEPT !.collisions = IF contact THEN @ + 1 ELSE @,
              !.samples = @ + 1,
              !.seen_speed = w.speed]

\* a driver that samples the criteria before it ticks the tree
DriverTickCriteriaFirst(st, cu, w, clk, crit, in, ch) ==
    LET T == TickTree(st, cu, LeafResults(w, in, clk), ch)
    IN  [tree |-> T,
         walker |-> Commanded(w, T.ticked, in, clk),
         criteria |-> [c \in DOMAIN crit |-> Sample(crit[c], w, in.contact)]]

\* a driver in which a failed criterion fails the root
DriverTickShortCircuit(st, cu, w, clk, crit, in, ch) ==
    LET T == TickTree(st, cu, LeafResults(w, in, clk), ch)
        w1 == Commanded(w, T.ticked, in, clk)
        crit1 == [c \in DOMAIN crit |-> Sample(crit[c], w1, in.contact)]
    IN  [tree |-> IF \E c \in DOMAIN crit1 : crit1[c].collisions > 0
                  THEN [T EXCEPT !.status["scenario_sequence"] = "FAILURE"]
                  ELSE T,
         walker |-> w1,
         criteria |-> crit1]

\* one tick of the driver: the tree (trigger and behaviour nodes) first, then
\* every criterion is sampled once on the world the commands left
DriverTick(st, cu, w, clk, crit, in, ch) ==
    LET T == TickTree(st, cu, LeafResults(w, in, clk), ch)
        w1 == Commanded(w, T.ticked, in, clk)
    IN  [tree |-> T,
         walker |-> w1,
         criteria |-> [c \in DOMAIN crit |-> Sample(crit[c], w1, in.contact)]]

-----------------------------------------------------------------------------
(* The scenario lifecycle *)

\* all orders in which the entries of a set can be iterated
Perms(S) == {p \in [1..Cardinality(S) -> S] : \A i, j \in DOMAIN p : i # j => p[i] # p[j]}

Origin == [x |-> 0, y |-> 0, z |-> 0, yaw |-> 0, pitch |-> 0, roll |-> 0]
EgoYaws == {0, 180}
NoTransform == [n \in {} |-> Origin]
NoWalker == [speed |-> 0, dist |-> 0, drive_start |-> -1, idle_start |-> -1]
NoInput == [dist |-> 0, closing |-> 0, reject |-> FALSE, contact |-> FALSE]
NoReport == [final |-> FALSE, timed_out |-> FALSE, tree_status |-> "INVALID",
             collisions |-> 0, end_clock |-> 0]
NoGeo == [spec |-> [yaw |-> 0, k |-> 0, j |-> 0, z |-> 0], out |-> Origin, done |-> FALSE]
NoCriteria == [c \in {} |-> FreshCriterion]

\* state shared by the initial states of the three specifications
Blank ==
    /\ other_actors = <<>>
    /\ spawned = {}
    /\ physics = {}
    /\ placed = NoTransform
    /\ destroyed = {}
    /\ destroy_failed = {}
    /\ children = NoChildren
    /\ status = FreshStatus
    /\ cur = FreshCur
    /\ ticked = {}
    /\ clock = 0
    /\ gate_time = -1
    /\ walker = NoWalker
    /\ tick_in = NoInput
    /\ criteria = NoCriteria
    /\ report = NoReport

\* __init__ up to the call of _initialize_actors: the reference transform is
\* the ego vehicle's, the iteration order of actors_info is the dictionary's
Init ==
    /\ phase = "init"
    /\ reference_transform \in {[Origin EXCEPT !.yaw = a] : a \in EgoYaws}
    /\ pending \in Perms(ActorNames)
    /\ info = actors_info
    /\ geo = NoGeo
    /\ Blank

\* the fields spawn_actor reads from a placement spec, all of them before it
\* requests the actor
PlacementFields == {"k", "j", "yaw", "z"}

\* reading a field the placement spec lacks raises KeyError
KeyError(actor_transform) == ~(PlacementFields \subseteq DOMAIN actor_transform)

\* a loop that drops the entry whose spec raised and goes on with the next
KeyErrorSkipsEntry(p) ==
    [phase |-> IF Tail(p) = <<>> THEN "actors_ready" ELSE "init", pending |-> Tail(p)]

\* the loop of _initialize_actors has no handler: the exception leaves the
\* loop and __init__ with the entry still unprocessed
KeyErrorOutcome(p) == [phase |-> "aborted", pending |-> p]

\* spawn_actor working on the reference's own location and rotation
ReferenceAliased(actor_transform, start_transform) ==
    SpawnTransform(actor_transform, start_transform)

\* spawn_actor works on a Transform constructed from the reference's location
\* and rotation; the reference keeps its value
ReferenceAfterSpawn(actor_transform, start_transform) == start_transform

\* one iteration of the loop of _initialize_actors: spawn_actor on the next
\* entry.  A spec lacking a field raises before the actor is requested;
\* request_new_actor may fail; set_simulate_physics may be rejected after the
\* actor exists; each of them ends construction with the error.
SpawnActor ==
    /\ phase = "init"
    /\ pending # <<>>
    /\ LET actor_name == Head(pending)
           actor_transform == info[actor_name]
       IN  IF KeyError(actor_transform)
           THEN /\ phase' = KeyErrorOutcome(pending).phase
                /\ pending' = KeyErrorOutcome(pending).pending
                /\ UNCHANGED <<spawned, placed, physics, other_actors,
                               reference_transform>>
           ELSE LET transform == SpawnTransform(actor_transform, reference_transform)
                IN  /\ reference_transform' =
                          ReferenceAfterSpawn(actor_transform, reference_transform)
                    /\ \/ /\ phase' = "aborted"
                          /\ UNCHANGED <<spawned, placed, physics, other_actors, pending>>
                       \/ /\ spawned' = spawned \cup {actor_name}
                          /\ placed' = [n \in DOMAIN placed \cup {actor_name} |->
                                           IF n = actor_name THEN transform ELSE placed[n]]
                          /\ \/ /\ phase' = "aborted"
                                /\ UNCHANGED <<physics, other_actors, pending>>
                             \/ /\ physics' = physics \cup {actor_name}
                                /\ other_actors' = Append(other_actors, actor_name)
                                /\ pending' = Tail(pending)
                                /\ phase' = IF Tail(pending) = <<>>
                                            THEN "actors_ready" ELSE "init"
    /\ UNCHANGED <<destroyed, children, status, cur, ticked, clock, gate_time,
                   walker, tick_in, criteria, report, geo, destroy_failed, info>>

\* _create_behavior
CreateBehavior ==
    /\ phase = "actors_ready"
    /\ children' = create_behavior
    /\ status' = FreshStatus
    /\ cur' = FreshCur
    /\ phase' = "behavior_built"
    /\ UNCHANGED <<reference_transform, pending, other_actors, spawned, physics,
                   placed, destroyed, ticked, clock, gate_time, walker, tick_in,
                   criteria, report, geo,
                   destroy_failed, info>>

\* _create_test_criteria
CreateTestCriteria ==
    /\ phase = "behavior_built"
    /\ criteria' = [c \in create_test_criteria |-> FreshCriterion]
    /\ phase' = "running"
    /\ UNCHANGED <<reference_transform, pending, other_actors, spawned, physics,
                   placed, destroyed, children, status, cur, ticked, clock,
                   gate_time, walker, tick_in, report, geo,
                   destroy_failed, info>>

Collisions(crit) == IF "CollisionTest" \in DOMAIN crit THEN crit["CollisionTest"].collisions ELSE 0

\* the inputs a tick can meet: the trigger's reading while the gate is live,
\* a rejected command once commands are issued, a contact event
TickInputs ==
    {in \in [dist : TriggerDistances \cup {0}, closing : ClosingVelocities,
             reject : BOOLEAN, contact : BOOLEAN] :
        /\ IF status["start_condition"] \in Terminal
           THEN in.dist = 0 /\ in.closing = 0
           ELSE in.dist # 0 /\ ~in.reject
        /\ in.contact => Collisions(criteria) < MaxContacts}

\* ticking goes on while the root is not terminal and the timeout has not elapsed
StillRunning(root, clk) == root \notin Terminal /\ clk < timeout

\* one tick of the driver, then the clock; the run ends when the root is
\* terminal or the timeout has elapsed, and the report is taken then
Tick ==
    /\ phase = "running"
    /\ \E in \in TickInputs :
          LET D == DriverTick(status, cur, walker, clock, criteria, in, children)
              root == D.tree.status["scenario_sequence"]
              clk == clock + TickPeriod
          IN  /\ tick_in' = in
              /\ status' = D.tree.status
              /\ cur' = D.tree.cur
              /\ ticked' = D.tree.ticked
              /\ walker' = Moved(D.walker)
              /\ criteria' = D.criteria
              /\ clock' = clk
              /\ gate_time' = IF gate_time = -1 /\ D.tree.status["start_condition"] = "SUCCESS"
                              THEN clock ELSE gate_time
              /\ IF StillRunning(root, clk)
                 THEN UNCHANGED <<phase, report>>
                 ELSE /\ phase' = "finished"
                      /\ report' = [final |-> TRUE,
                                    timed_out |-> root \notin Terminal,
                                    tree_status |-> root,
                                    collisions |-> Collisions(D.criteria),
                                    end_clock |-> clk]
    /\ UNCHANGED <<reference_transform, pending, other_actors, spawned, physics,
                   placed, destroyed, children, geo,
                   destroy_failed, info>>

\* __del__ without the call of remove_all_actors
RemovedByDelNone == {}

\* __del__: remove_all_actors destroys the actors held in other_actors
RemovedByDel == Range(other_actors)

\* the scenario object is deleted once its run has ended or its construction
\* failed; destroy is called on every actor removed, whichever of the calls fail
Del ==
    /\ phase \in {"finished", "aborted"}
    /\ destroyed' = destroyed \cup RemovedByDel
    /\ \E failed \in SUBSET RemovedByDel : destroy_failed' = failed
    /\ other_actors' = <<>>
    /\ phase' = "deleted"
    /\ UNCHANGED <<reference_transform, pending, spawned, physics, placed, children,
                   status, cur, ticked, clock, gate_time, walker, tick_in, criteria,
                   report, geo, info>>

Next == SpawnActor \/ CreateBehavior \/ CreateTestCriteria \/ Tick \/ Del

Spec == Init /\ [][Next]_vars

-----------------------------------------------------------------------------
(* SpecGeom: spawn_actor's transform on drawn references and placement specs *)

RefYaws == {-90, 0, 90, 180}
RefAngles == {0, 90}
RefTransforms ==
    [x : -MaxCoord..MaxCoord, y : -MaxCoord..MaxCoord, z : {0},
     yaw : RefYaws, pitch : RefAngles, roll : RefAngles]
PlacementSpecs == [yaw : {0, 90, 270}, k : {0, 2, 10, 25}, j : {0, 5, 15}, z : {0, 2}]

InitGeom ==
    /\ phase = "geom"
    /\ reference_transform \in RefTransforms
    /\ pending = <<>>
    /\ geo \in {[NoGeo EXCEPT !.spec = s] : s \in PlacementSpecs}
    /\ info = actors_info
    /\ Blank

\* spawn_actor called on the drawn pair, up to the transform it requests
GeomSpawn ==
    /\ phase = "geom"
    /\ ~geo.done
    /\ geo' = [geo EXCEPT !.out = SpawnTransform(geo.spec, reference_transform),
                          !.done = TRUE]
    /\ reference_transform' = ReferenceAfterSpawn(geo.spec, reference_transform)
    /\ UNCHANGED <<phase, pending, other_actors, spawned,
                   physics, placed, destroyed, children, status, cur, ticked,
                   clock, gate_time, walker, tick_in, criteria, report,
                   destroy_failed, info>>

NextGeom == GeomSpawn

SpecGeom == InitGeom /\ [][NextGeom]_vars

-----------------------------------------------------------------------------
(* SpecPlace: the lifecycle on dictionaries whose specs may lack a field *)

\* the placement spec without the field f
Lacking(actor_transform, f) ==
    [g \in DOMAIN actor_transform \ {f} |-> actor_transform[g]]

\* the dictionary of the code, and each dictionary with one field of one entry removed
InfoVariants ==
    {actors_info}
    \cup {[actors_info EXCEPT ![n] = Lacking(actors_info[n], f)] :
             n \in ActorNames, f \in PlacementFields}

InitPlace ==
    /\ phase = "init"
    /\ reference_transform \in {[Origin EXCEPT !.yaw = a] : a \in EgoYaws}
    /\ pending \in Perms(ActorNames)
    /\ info \in InfoVariants
    /\ geo = NoGeo
    /\ Blank

SpecPlace == InitPlace /\ [][Next]_vars

-----------------------------------------------------------------------------
(* SpecCtl: the composite controllers on trees whose leaves return any status *)

LeafOrder == <<"start_condition", "actor_velocity", "actor_drive",
               "actor_stop_crossed_lane", "ego_stand">>

\* a sequence of the first n leaves
Flat(n) == [NoChildren EXCEPT !["scenario_sequence"] = SubSeq(LeafOrder, 1, n)]

\* a sequence whose second child is a parallel of two leaves, followed by m
\* more leaves; m = 2 is SEQUENCE[gate, PARALLEL[velocity, distance], stop, idle]
Nested(m) ==
    [NoChildren EXCEPT
       !["scenario_sequence"] = <<"start_condition", "keep_velocity">>
                                \o SubSeq(<<"actor_stop_crossed_lane", "ego_stand">>, 1, m),
       !["keep_velocity"] = <<"actor_velocity", "actor_drive">>]

\* a parallel of three leaves inside a sequence of three children
Nested3 ==
    [NoChildren EXCEPT
       !["scenario_sequence"] = <<"start_condition", "keep_velocity",
                                  "actor_stop_crossed_lane">>,
       !["keep_velocity"] = <<"actor_velocity", "actor_drive", "ego_stand">>]

CtlShapes == {Flat(n) : n \in 1..Len(LeafOrder)}
             \cup {Nested(m) : m \in 0..2} \cup {Nested3}

InitCtl ==
    /\ phase = "ctl"
    /\ reference_transform = Origin
    /\ pending = <<>>
    /\ geo = NoGeo
    /\ other_actors = <<>>
    /\ spawned = {}
    /\ physics = {}
    /\ placed = NoTransform
    /\ destroyed = {}
    /\ destroy_failed = {}
    /\ info = actors_info
    /\ children \in CtlShapes
    /\ status = FreshStatus
    /\ cur = FreshCur
    /\ ticked = {}
    /\ clock = 0
    /\ gate_time = -1
    /\ walker = NoWalker
    /\ tick_in = NoInput
    /\ criteria = NoCriteria
    /\ report = NoReport

\* one tick of the tree from its root, each leaf returning any status a leaf can
CtlTick ==
    /\ phase = "ctl"
    /\ status["scenario_sequence"] \notin Terminal
    /\ \E lr \in [Leaves -> {"RUNNING", "SUCCESS", "FAILURE"}] :
          LET T == TickTree(status, cur, lr, children)
          IN  /\ status' = T.status
              /\ cur' = T.cur
              /\ ticked' = T.ticked
    /\ UNCHANGED <<phase, reference_transform, pending, other_actors, spawned,
                   physics, placed, destroyed, children, clock, gate_time, walker,
                   tick_in, criteria, report, geo,
                   destroy_failed, info>>

NextCtl == CtlTick

SpecCtl == InitCtl /\ [][NextCtl]_vars

-----------------------------------------------------------------------------
(* Claims *)

Root == "scenario_sequence"
RootKids == children[Root]
Built == phase \in {"behavior_built", "running", "finished"}
Ended == phase \in {"finished", "deleted"} /\ report.final

\* C1: the root returned by _create_behavior is a SEQUENCE of exactly four
\* children, in order the trigger gate, a PARALLEL_SUCCEED_ON_FIRST of the
\* velocity-apply and distance-track nodes, the stop node and the idle node;
\* so whenever the velocity-apply node is ticked, the distance-track node is
\* ticked in the same tick.
C1_RootComposition ==
    Built =>
        /\ Kind(Root) = "SEQUENCE"
        /\ RootKids = <<"start_condition", "keep_velocity",
                        "actor_stop_crossed_lane", "ego_stand">>
        /\ Kind("keep_velocity") = "SUCCESS_ON_ONE"
        /\ children["keep_velocity"] = <<"actor_velocity", "actor_drive">>
        /\ ("actor_velocity" \in ticked => "actor_drive" \in ticked)

\* time that suffices, after the trigger gate succeeded, for walking the target
\* distance, braking to a stop, idling, and handing over between the children
SuccessBudget ==
    ego_stand_duration + dist_actor_travel + other_actor_target_velocity
    + 2 * Len(LeafOrder) * TickPeriod

\* C2: a run in which the trigger became true, no actor command was rejected
\* and the timeout left time for the phases ends with the root SUCCESS, after
\* the gate succeeded, the walker moved the target distance, the stop node
\* succeeded and the idle node succeeded.
C2_ReachesSuccess ==
    (Ended /\ gate_time # -1 /\ gate_time + SuccessBudget <= timeout /\ ~tick_in.reject) =>
        /\ report.tree_status = "SUCCESS"
        /\ status["start_condition"] = "SUCCESS"
        /\ walker.dist >= dist_actor_travel
        /\ status["actor_stop_crossed_lane"] = "SUCCESS"
        /\ status["ego_stand"] = "SUCCESS"

\* C3: once the lifecycle has ended, on every exit path, the actors the
\* scenario destroyed are exactly the actors it spawned, and the ego vehicle is
\* not among them.
C3_DestroyedEqualsSpawned ==
    phase = "deleted" => (destroyed = spawned /\ "ego" \notin destroyed)

\* C4: when the timeout elapses with the root not terminal, ticking stops, the
\* report says timed out with a tree status that is neither SUCCESS nor
\* FAILURE, the criterion's verdict is the one of the last tick, and after
\* deletion every spawned actor is destroyed.
C4_TimeoutReport ==
    /\ (phase = "running" => clock < timeout)
    /\ (Ended /\ status[Root] \notin Terminal => report.timed_out)
    /\ (Ended /\ report.timed_out =>
          /\ report.tree_status \notin Terminal
          /\ report.tree_status = status[Root]
          /\ clock >= timeout
          /\ report.end_clock = clock
          /\ \A c \in DOMAIN criteria : criteria[c].samples * TickPeriod = clock
          /\ report.collisions = Collisions(criteria)
          /\ (phase = "deleted" => spawned # {} /\ spawned \subseteq destroyed))

C4_Witness ==
    /\ phase = "deleted"
    /\ report.timed_out
    /\ report.collisions > 0
    /\ spawned = ActorNames
    /\ destroyed = ActorNames

\* C5: when child i of the SEQUENCE reports FAILURE, the controller is FAILURE
\* after that same tick, and no child after i has been ticked.
C5_SequenceFailsFast ==
    \A i \in DOMAIN RootKids :
        status[RootKids[i]] = "FAILURE" =>
            /\ status[Root] = "FAILURE"
            /\ \A j \in DOMAIN RootKids :
                  j > i => /\ status[RootKids[j]] = "INVALID"
                           /\ \A g \in Range(children[RootKids[j]]) : status[g] = "INVALID"

C5_Witness ==
    /\ Len(RootKids) = 4
    /\ status[RootKids[1]] = "SUCCESS"
    /\ status[RootKids[2]] = "FAILURE"
    /\ status[Root] = "FAILURE"
    /\ status[RootKids[3]] = "INVALID"
    /\ status[RootKids[4]] = "INVALID"

\* C6: the PARALLEL_SUCCEED_ON_FIRST controller is SUCCESS after the tick in
\* which a child of it reaches SUCCESS, whatever the status of its other
\* children, and none of its children is ticked in any later tick.
C6_ParallelSucceedsOnFirst ==
    /\ [](\A c \in Range(children["keep_velocity"]) :
            status[c] = "SUCCESS" => status["keep_velocity"] = "SUCCESS")
    /\ [][status["keep_velocity"] = "SUCCESS" =>
            Range(children["keep_velocity"]) \cap ticked' = {}]_vars

C6_Witness ==
    /\ status["keep_velocity"] = "SUCCESS"
    /\ status["actor_drive"] = "SUCCESS"
    /\ status["actor_velocity"] = "RUNNING"
    /\ status["actor_stop_crossed_lane"] = "RUNNING"
    /\ "actor_stop_crossed_lane" \in ticked

\* C7: the tree after a tick is the same whatever contact events the collision
\* criterion has counted and whatever contact event the tick brings: the root's
\* status, the statuses of the children and the child being ticked do not
\* depend on them, and the root fails only when a child of it failed.
C7_CriterionNeverShortCircuits ==
    [][clock' # clock =>
          /\ \A n \in 0..MaxContacts, b \in BOOLEAN :
                LET alt == DriverTick(status, cur, walker, clock,
                                      [c \in DOMAIN criteria |->
                                          [criteria[c] EXCEPT !.collisions = n]],
                                      [tick_in' EXCEPT !.contact = b],
                                      children).tree
                IN  /\ alt.status = status'
                    /\ alt.cur = cur'
                    /\ alt.ticked = ticked'
          /\ (status'[Root] = "FAILURE" =>
                \E c \in Range(RootKids) : status'[c] = "FAILURE")]_vars

C7_Witness ==
    /\ phase = "running"
    /\ Collisions(criteria) > 0
    /\ tick_in.contact
    /\ status[Root] = "RUNNING"
    /\ status["actor_velocity"] = "RUNNING"

\* C8: after every tick of the driver each criterion has been sampled once per
\* tick, the collision criterion among them, and what it observed is the world
\* the commands of that tick's nodes left.
C8_CriteriaSampledAfterTree ==
    phase \in {"running", "finished"} =>
        /\ "CollisionTest" \in DOMAIN criteria
        /\ \A c \in DOMAIN criteria :
              /\ criteria[c].samples * TickPeriod = clock
              /\ criteria[c].seen_speed = walker.speed

C8_Witness ==
    /\ phase = "running"
    /\ "actor_velocity" \in ticked
    /\ criteria["CollisionTest"].samples >= 2
    /\ criteria["CollisionTest"].seen_speed = other_actor_target_velocity

\* C9: with k = 0, j = 0 and z = 0 the transform spawn_actor computes has the
\* reference's location, pitch and roll, and the reference's yaw plus the
\* spec's yaw.
C9_ZeroOffsetKeepsPose ==
    (phase = "geom" /\ geo.done /\ geo.spec.k = 0 /\ geo.spec.j = 0 /\ geo.spec.z = 0) =>
        /\ geo.out.x = reference_transform.x
        /\ geo.out.y = reference_transform.y
        /\ geo.out.z = reference_transform.z
        /\ geo.out.pitch = reference_transform.pitch
        /\ geo.out.roll = reference_transform.roll
        /\ geo.out.yaw = reference_transform.yaw + geo.spec.yaw

C9_Witness ==
    /\ phase = "geom" /\ geo.done
    /\ geo.spec = [yaw |-> 270, k |-> 0, j |-> 0, z |-> 0]
    /\ reference_transform = [x |-> 1, y |-> -1, z |-> 0, yaw |-> 180, pitch |-> 90, roll |-> 90]
    /\ geo.out.yaw = 450

\* C10: for a reference whose yaw is a multiple of 90 degrees the location
\* spawn_actor computes is the reference's plus k times the forward vector at
\* the reference's yaw plus j times the forward vector at that yaw plus 90,
\* with z added to the vertical coordinate; the yaw is the reference's plus
\* the spec's; from the origin facing +x, k = 10, j = 5, z = 0 lands 10 ahead
\* and 5 to the side.
C10_OffsetFormula ==
    (phase = "geom" /\ geo.done) =>
        LET r == reference_transform
            ahead == get_forward_vector(r.pitch, r.yaw)
            side == get_forward_vector(r.pitch, r.yaw + 90)
        IN  /\ geo.out.x = r.x + geo.spec.k * ahead.x + geo.spec.j * side.x
            /\ geo.out.y = r.y + geo.spec.k * ahead.y + geo.spec.j * side.y
            /\ geo.out.z = r.z + geo.spec.k * ahead.z + geo.spec.j * side.z + geo.spec.z
            /\ geo.out.yaw = r.yaw + geo.spec.yaw
            /\ (r = Origin /\ geo.spec.k = 10 /\ geo.spec.j = 5 /\ geo.spec.z = 0 =>
                  geo.out.x = 10 /\ geo.out.y = 5 /\ geo.out.z = 0)

C10_Witness ==
    /\ phase = "geom" /\ geo.done
    /\ reference_transform = Origin
    /\ geo.spec = actors_info["walker.*"]
    /\ geo.out = [x |-> 10, y |-> 5, z |-> 0, yaw |-> 270, pitch |-> 0, roll |-> 0]

\* C11: in a tick in which the two actors have zero relative closing velocity
\* the trigger evaluator returns false: the trigger gate, ticked in that tick,
\* is RUNNING after it, neither SUCCESS nor FAILURE
C11_ZeroClosingKeepsGateRunning ==
    ("start_condition" \in ticked /\ tick_in.closing = 0)
        => /\ status["start_condition"] = "RUNNING"
           /\ status[Root] = "RUNNING"
           /\ gate_time = -1

\* the gate has been ticked at zero closing velocity after an earlier tick,
\* inside the distance a closing velocity of 4 would trigger at
C11_Witness ==
    /\ "start_condition" \in ticked
    /\ tick_in.closing = 0
    /\ tick_in.dist = 20
    /\ clock >= 2 * TickPeriod
    /\ status["start_condition"] = "RUNNING"

\* C12: if a placement spec lacks one of the fields k, j, z, yaw, setup ends
\* in the error: no actor is spawned for that spec, the entry is never passed,
\* no later entry is processed, and the behaviour tree is never built or ticked
C12_MissingFieldAbortsSetup ==
    \A n \in ActorNames :
        KeyError(info[n]) =>
            /\ n \notin spawned
            /\ n \in Range(pending)
            /\ \A i, j \in DOMAIN pending :
                  (pending[i] = n /\ i < j) => pending[j] \notin spawned
            /\ phase \in {"init", "aborted", "deleted"}
            /\ children = NoChildren
            /\ status = FreshStatus
            /\ ticked = {}
            /\ clock = 0

\* the first entry was spawned, spawn_actor raised on the second, whose spec
\* lacks a field, and the third is left unprocessed
C12_Witness ==
    /\ phase = "aborted"
    /\ Len(pending) = 2
    /\ KeyError(info[Head(pending)])
    /\ Len(other_actors) = 1
    /\ spawned = Range(other_actors)

\* C13: when teardown has ended and destroying some spawned actor failed,
\* destroy has still been attempted on every spawned actor
C13_DestroyAttemptedOnEverySpawned ==
    (phase = "deleted" /\ destroy_failed # {}) => spawned \subseteq destroyed

\* C14: over every tick of every tree, each node's status only moves forward
\* along INVALID, RUNNING, {SUCCESS, FAILURE}: a terminal status is kept in
\* every later state, a status never returns to INVALID, and a status changes
\* only in a tick that ticks the node
C14_StatusOnlyMovesForward ==
    [][\A n \in Nodes :
          /\ status[n] \in Terminal => status'[n] = status[n]
          /\ status[n] # "INVALID" => status'[n] # "INVALID"
          /\ status'[n] \in Statuses
          /\ status'[n] # status[n] => n \in ticked']_vars

\* inside a sequence, a parallel controller has succeeded on one child while
\* another child is left RUNNING, and a later tick has moved on past it
C14_Witness ==
    /\ status["keep_velocity"] = "SUCCESS"
    /\ status["actor_velocity"] = "RUNNING"
    /\ status["actor_drive"] = "SUCCESS"
    /\ status["actor_stop_crossed_lane"] = "RUNNING"
    /\ "keep_velocity" \notin ticked

\* C15: while the trigger gate is INVALID or RUNNING, the velocity-apply,
\* distance-track and stop nodes are INVALID and have not been ticked, and the
\* scripted walker has been given no velocity: it stands where it was spawned
C15_NoCommandBeforeGateSucceeds ==
    status["start_condition"] \in {"INVALID", "RUNNING"} =>
        /\ status["actor_velocity"] = "INVALID"
        /\ status["actor_drive"] = "INVALID"
        /\ status["actor_stop_crossed_lane"] = "INVALID"
        /\ ticked \cap {"actor_velocity", "actor_drive", "actor_stop_crossed_lane"} = {}
        /\ walker.speed = 0
        /\ walker.dist = 0

\* the gate has been ticked several times, the actors closing but not yet
\* within the time to arrival, and the walker still stands
C15_Witness ==
    /\ phase = "running"
    /\ clock >= 3 * TickPeriod
    /\ status["start_condition"] = "RUNNING"
    /\ tick_in.closing = 4
    /\ tick_in.dist = 40
    /\ walker.speed = 0

YawRanges == {{a \in -360..720 : -180 < a /\ a <= 180}, {a \in -360..720 : 0 <= a /\ a < 360}}

\* C17: for a reference yaw inside the normalized range and a placement spec
\* with one of the scenario's yaw offsets (0, 90, 270), the yaw of the
\* transform spawn_actor computes is inside the normalized range again
C17_YawStaysNormalized ==
    (geo.done /\ geo.spec.yaw \in {actors_info[n].yaw : n \in ActorNames}) =>
        \A W \in YawRanges :
            reference_transform.yaw \in W => geo.out.yaw \in W

\* C18: in every state of a SEQUENCE controller at most one child is RUNNING,
\* every child before it is SUCCESS and every child after it is INVALID; each
\* tick ticks only the current child; a child that succeeds hands over to the
\* next child, which is first ticked on the following tick; and the controller
\* is SUCCESS exactly when its last child has succeeded
C18_SequenceOneChildAtATime ==
    /\ [](/\ \A i \in DOMAIN RootKids :
               status[RootKids[i]] = "RUNNING" =>
                  /\ \A j \in DOMAIN RootKids :
                        /\ j < i => status[RootKids[j]] = "SUCCESS"
                        /\ j > i => status[RootKids[j]] = "INVALID"
          /\ Cardinality({i \in DOMAIN RootKids : status[RootKids[i]] = "RUNNING"}) <= 1
          /\ Cardinality(ticked \cap Range(RootKids)) <= 1
          /\ status[Root] = "SUCCESS" <=> status[RootKids[Len(RootKids)]] = "SUCCESS")
    /\ [][LET i == cur[Root]
          IN  /\ ticked' \cap Range(RootKids) = {RootKids[i]}
              /\ status'[RootKids[i]] = "SUCCESS" /\ i < Len(RootKids) =>
                    /\ cur'[Root] = i + 1
                    /\ status'[RootKids[i + 1]] = "INVALID"
                    /\ status'[Root] = "RUNNING"
              /\ status'[RootKids[i]] = "RUNNING" => cur'[Root] = i
              /\ status'[Root] = "SUCCESS" =>
                    i = Len(RootKids) /\ status'[RootKids[i]] = "SUCCESS"]_vars

\* the third child is RUNNING after the gate and the parallel controller have
\* succeeded one after the other, and a fourth child waits
C18_Witness ==
    /\ children = Nested(2)
    /\ cur[Root] = 3
    /\ status["start_condition"] = "SUCCESS"
    /\ status["keep_velocity"] = "SUCCESS"
    /\ status["actor_stop_crossed_lane"] = "RUNNING"
    /\ status["ego_stand"] = "INVALID"
    /\ ticked \cap Range(RootKids) = {"actor_stop_crossed_lane"}

C20_FirstActorIsTheWalker ==
    phase \in {"actors_ready", "behavior_built", "running", "finished"} =>
        /\ Len(other_actors) = Cardinality(ActorNames)
        /\ Range(other_actors) = ActorNames
        /\ Range(other_actors) \subseteq physics
        /\ other_actors[1] = "walker.*"
        /\ placed[other_actors[1]] =
              SpawnTransform([yaw |-> 270, k |-> 10, j |-> 5, z |-> 0],
                             reference_transform)

=============================================================================
